---- MODULE Spec2Model ----
(***************************************************************************)
(* A model of lstm_model_single.py: the configuration codec (encodings,    *)
(* decodings, encode, decode), unfold, prepare_data, the generation loop   *)
(* of generate and of train, train's fit/generate/save cycle, and run.     *)
(*                                                                         *)
(* numpy arrays are records [ncols, rows]: rows is the sequence of the     *)
(* array's rows and a row is a function over the 0-based column indices.   *)
(* Python lists and tuples are sequences (element k of the list is         *)
(* element k+1 of the sequence).  The external collaborators (the keras    *)
(* model, np.load, the MIDI renderer) are not modelled beyond the call     *)
(* made to them, which is appended to `calls`.                             *)
(*                                                                         *)
(* The program's sizes are scaled down so that the state space is finite   *)
(* and small: the source has PHRASE_LEN = 32, MIN_HITS = 8,                *)
(* NUM_ITERATIONS = 60, 512 and 4096 generation steps, 5 repeats in run    *)
(* and a kit of 4 pitches.                                                 *)
(***************************************************************************)
EXTENDS Integers, Sequences, FiniteSets, TLC

VARIABLES
    PITCHES,        \* the pitches modelled (module constant, line 21)
    OUT_PITCHES,    \* the pitches rendered; the pitch list handed to unfold
    pc,             \* the position of the program
    err,            \* the exception that ended the program, "" if none
    calls,          \* the calls made to external collaborators, in order
    input,          \* the argument the entry point was called with
    trips,          \* codec: how many of encode/decode have been applied
    midi_array,     \* codec, unfold: the folded array at hand
    config_ids,     \* codec: the list of Class IDs at hand
    res,            \* unfold: the array returned
    corpus,         \* the files os.walk yields under MIDI_IN_DIR, in order
    file_idx,       \* prepare_data: how many files the walk has passed
    config_seq,     \* prepare_data, train: the Event Sequence
    X,              \* prepare_data: the contexts of the examples
    y,              \* prepare_data: the labels of the examples
    caller,         \* which entry point the program was started at
    seed,           \* generate, train: the window the loop starts from
    length,         \* generate, train: the iterations asked for
    phrase,         \* generate, train: the sliding window
    generated,      \* generate, train: the Generated Sequence
    j,              \* generate, train: iterations of the loop done
    i,              \* train: the cycle; run: the repeat
    t_idx,          \* train, run: index of the temperature in its list
    start_index     \* train: where the seed window starts

vars ==
    <<PITCHES, OUT_PITCHES, pc, err, calls, input, trips, midi_array,
      config_ids, res, corpus, file_idx, config_seq, X, y, caller, seed,
      length, phrase, generated, j, i, t_idx, start_index>>

(***************************************************************************)
(* Sizes.                                                                  *)
(***************************************************************************)
\* line 40: at most 8 pitches
MAX_PITCHES == 8
\* line 69: the velocity decode gives an active pitch
VELOCITY == 120
\* line 78: the width of an unfolded array
NUM_MIDI_PITCHES == 128
\* line 25 has 32
PHRASE_LEN == 2
\* line 28 has 8
MIN_HITS == 2
\* line 26 has 60
NUM_ITERATIONS == 2
\* line 191 has 512
TRAIN_GEN_LENGTH == 2
\* line 224 has 4096
RUN_GEN_LENGTH == 2
\* line 226 has 5
RUN_REPEATS == 1
\* how many of encode/decode the codec harness applies in a row
MaxTrips == 2
\* the rows and columns of the arrays handed to unfold
MaxUnfoldRows == 1
MaxUnfoldCols == 2
\* the files of a corpus and the rows of a file
MaxFiles == 2
MaxFileRows == 2

\* lines 21 and 23 have 4 pitches each: [36,38,42,51] and [54,56,58,60]
KIT == <<36, 38>>
OUT_KIT == <<54, 56>>
\* a column of a source file outside the kit
OFF_KIT == KIT[1] + 4

(***************************************************************************)
(* Helpers for Python's lists and numpy's arrays.                          *)
(***************************************************************************)
Max(a, b) == IF a >= b THEN a ELSE b

Min(a, b) == IF a <= b THEN a ELSE b

RECURSIVE Pow2(_)
Pow2(n) == IF n = 0 THEN 1 ELSE 2 * Pow2(n - 1)

Range(s) == {s[k] : k \in 1..Len(s)}

\* s[a:b] of a list s, for 0 <= a
Slice(s, a, b) == SubSeq(s, Min(a, Len(s)) + 1, Min(b, Len(s)))

\* a call to an external collaborator, with what tells it from the others
Call(op, a, b) == <<op, a, b>>

\* an array of the given columns
Arr(ncols, rows) == [ncols |-> ncols, rows |-> rows]

\* np.zeros((nrows, ncols))
Zeros(nrows, ncols) ==
    Arr(ncols, [r \in 1..nrows |-> [c \in 0..(ncols - 1) |-> 0]])

\* the row of an array that holds a list
Row(list) == [c \in 0..(Len(list) - 1) |-> list[c + 1]]

(***************************************************************************)
(* The codec: lines 40-71.                                                 *)
(***************************************************************************)
\* itertools.product([0,1], repeat=n), as the list it enumerates: from
\* [[]], one pass of [x + [y] for x in result for y in [0,1]] for each of
\* the n pools
RECURSIVE Product(_)
Product(n) ==
    IF n = 0 THEN << <<>> >>
    ELSE LET result == Product(n - 1)
         IN  [k \in 1..(2 * Len(result)) |->
                 Append(result[(k + 1) \div 2], (k + 1) % 2)]

\* whether config is a key of the table encodings (lines 41-44) built for
\* n pitches
EncodingsHas(n, config) == config \in Range(Product(n))

\* encodings[config]: the index i under which enumerate lists config (the
\* last one, as a dict comprehension keeps it)
EncodingsGet(n, config) ==
    LET prod == Product(n)
        hits == {k \in 1..Len(prod) : prod[k] = config}
    IN  (CHOOSE k \in hits : \A m \in hits : m <= k) - 1

\* whether id is a key of the table decodings (lines 46-49)
DecodingsHas(n, id) == id \in 0..(Pow2(n) - 1)

\* decodings[id]
DecodingsGet(n, id) == Product(n)[id + 1]

\* a faulty threshold: >= 0 for > 0
LooseThreshold(v) == IF v >= 0 THEN 1 ELSE 0

\* (v > 0).astype(int)
Threshold(v) == IF v > 0 THEN 1 ELSE 0

\* tuple((time_slice>0).astype(int)) of row k of an array
ConfigOfRow(arr, k) == [c \in 1..arr.ncols |-> Threshold(arr.rows[k][c - 1])]

\* encode(midi_array) raises KeyError
EncodeFails(n, arr) ==
    \E k \in 1..Len(arr.rows) : ~EncodingsHas(n, ConfigOfRow(arr, k))

\* encode(midi_array), with the tables built for n pitches
encode(n, arr) ==
    [k \in 1..Len(arr.rows) |-> EncodingsGet(n, ConfigOfRow(arr, k))]

\* the exception decode(config_ids) raises, "" if none: a KeyError of line
\* 71's lookup, or else np.vstack's ValueError for an empty list
DecodeError(n, ids) ==
    IF \E k \in 1..Len(ids) : ~DecodingsHas(n, ids[k]) THEN "KeyError"
    ELSE IF ids = <<>> THEN "ValueError"
    ELSE ""

DecodeFails(n, ids) == DecodeError(n, ids) # ""

\* decode(config_ids)
decode(n, ids) ==
    Arr(n, [k \in 1..Len(ids) |->
               LET config == DecodingsGet(n, ids[k])
               IN  [c \in 0..(n - 1) |-> VELOCITY * config[c + 1]]])

(***************************************************************************)
(* unfold: lines 74-82.                                                    *)
(***************************************************************************)
UnfoldFails(arr, pitches) == arr.ncols # Len(pitches)

\* line 81, for i = k-1: res[:,pitches[i]] = midi_array[:,i]
AssignColumn(result, arr, pitches, k) ==
    Arr(result.ncols,
        [r \in 1..Len(result.rows) |->
            [result.rows[r] EXCEPT ![pitches[k]] = arr.rows[r][k - 1]]])

\* the loop of lines 80-81 from its k-th pass on
RECURSIVE UnfoldFrom(_, _, _, _)
UnfoldFrom(result, arr, pitches, k) ==
    IF k > Len(pitches) THEN result
    ELSE UnfoldFrom(AssignColumn(result, arr, pitches, k), arr, pitches, k + 1)

\* a faulty unfold: column i of the array is written to column i
UnshiftedUnfold(arr, pitches) ==
    UnfoldFrom(Zeros(Len(arr.rows), NUM_MIDI_PITCHES), arr,
               [k \in 1..Len(pitches) |-> k - 1], 1)

\* unfold(midi_array, pitches) when the assertion of line 79 passes
unfold(arr, pitches) ==
    UnfoldFrom(Zeros(Len(arr.rows), NUM_MIDI_PITCHES), arr, pitches, 1)

(***************************************************************************)
(* prepare_data: lines 85-115.  A source file is [npy, array]: whether its *)
(* name ends in .npy, and the array np.load gives for it.  Of the columns  *)
(* of a file's array the model keeps those in FILE_COLUMNS, the kit's and  *)
(* one outside it: a row is a function over FILE_COLUMNS.                  *)
(***************************************************************************)
FILE_COLUMNS == Range(KIT) \cup {OFF_KIT}

\* array[:, PITCHES]
SelectColumns(rows, pitches) ==
    Arr(Len(pitches),
        [r \in 1..Len(rows) |->
            [c \in 0..(Len(pitches) - 1) |-> rows[r][pitches[c + 1]]]])

\* np.sum over the cells c.. of row r and over the rows after it
RECURSIVE SumFrom(_, _, _)
SumFrom(arr, r, c) ==
    IF r > Len(arr.rows) THEN 0
    ELSE IF c >= arr.ncols THEN SumFrom(arr, r + 1, 0)
    ELSE (IF arr.rows[r][c] > 0 THEN 1 ELSE 0) + SumFrom(arr, r, c + 1)

\* np.sum(np.sum(array[:, PITCHES]>0))
Hits(rows, pitches) == SumFrom(SelectColumns(rows, pitches), 1, 0)

\* a faulty filter: <= MIN_HITS for < MIN_HITS
DiscardsAtThreshold(rows, pitches) == Hits(rows, pitches) <= MIN_HITS

\* line 99: the file is passed over
Discards(rows, pitches) == Hits(rows, pitches) < MIN_HITS

\* lines 109-110 from the j-th entry of the window on: X[i, j, cid] = 1
RECURSIVE FillContext(_, _, _, _)
FillContext(Xc, i0, window, j0) ==
    IF j0 >= Len(window) THEN Xc
    ELSE FillContext([Xc EXCEPT ![i0][j0][window[j0 + 1]] = 1], i0, window,
                     j0 + 1)

\* a faulty label: the last Class ID of the window
LabelBeforeEnd(seq, i0) == seq[(i0 + PHRASE_LEN - 1) + 1]

\* line 111: the Class ID the label of example i0 is set at
LabelOf(seq, i0) == seq[(i0 + PHRASE_LEN) + 1]

\* the loop of lines 108-111 from example i0 on
RECURSIVE FillExamples(_, _, _, _)
FillExamples(Xy, i0, num_examples, seq) ==
    IF i0 >= num_examples THEN Xy
    ELSE FillExamples(
             [X |-> FillContext(Xy.X, i0, Slice(seq, i0, i0 + PHRASE_LEN), 0),
              y |-> [Xy.y EXCEPT ![i0][LabelOf(seq, i0)] = 1]],
             i0 + 1, num_examples, seq)

\* lines 105-113, for num_examples >= 0 and n pitches
Examples(seq, n) ==
    LET num_examples == Len(seq) - PHRASE_LEN
        classes == 0..(Pow2(n) - 1)
        zeros ==
            [X |-> [a \in 0..(num_examples - 1) |->
                       [b \in 0..(PHRASE_LEN - 1) |-> [c \in classes |-> 0]]],
             y |-> [a \in 0..(num_examples - 1) |-> [c \in classes |-> 0]]]
    IN  FillExamples(zeros, 0, num_examples, seq)

(***************************************************************************)
(* sample: lines 52-56.  A Probability Vector is kept as its support: an   *)
(* entry is 1 where the probability is positive and 0 where it is zero.    *)
(***************************************************************************)
\* lines 54-55: exp(log(p)/temperature), renormalised, is positive exactly
\* where p is
Rescale(a) == [c \in DOMAIN a |-> IF a[c] > 0 THEN 1 ELSE 0]

\* np.random.multinomial(1, a, 1): the counts of one draw, a single 1 at an
\* index of positive probability
Multinomial(a) ==
    {[c \in DOMAIN a |-> IF c = k THEN 1 ELSE 0] : k \in {c \in DOMAIN a : a[c] > 0}}

\* a faulty argmax: the index counted from 1
OneBasedArgMax(counts) ==
    1 + (CHOOSE k \in DOMAIN counts :
            /\ \A m \in DOMAIN counts : counts[m] <= counts[k]
            /\ \A m \in DOMAIN counts : m < k => counts[m] < counts[k])

\* np.argmax: the first index of the largest entry
ArgMax(counts) ==
    CHOOSE k \in DOMAIN counts :
        /\ \A m \in DOMAIN counts : counts[m] <= counts[k]
        /\ \A m \in DOMAIN counts : m < k => counts[m] < counts[k]

\* the Class IDs sample(preds, temperature) can return
sample(preds) == {ArgMax(counts) : counts \in Multinomial(Rescale(preds))}

\* what model.predict can return for n pitches: any vector of 2^n entries
\* that are not all zero
Predictions(n) ==
    {a \in [0..(Pow2(n) - 1) -> {0, 1}] : \E c \in DOMAIN a : a[c] = 1}

(***************************************************************************)
(* The generation loop: lines 129-137 of generate, 191-199 of train.       *)
(***************************************************************************)
\* lines 130-132 and 192-194 raise IndexError: x has PHRASE_LEN time steps
\* and 2^n classes (a negative index counts from the end)
OneHotFails(window, n) ==
    \/ Len(window) > PHRASE_LEN
    \/ \E t \in 1..Len(window) : window[t] \notin (-Pow2(n))..(Pow2(n) - 1)

\* a faulty slide: the oldest entry is kept
GrowingSlide(window, next_id) == window \o <<next_id>>

\* lines 137 and 199: phrase[1:] + [next_id]
Slide(window, next_id) == Slice(window, 1, Len(window)) \o <<next_id>>

\* lines 140 and 203 raise before the renderer is called: decode's
\* ValueError for an empty list, or unfold's assertion
RenderError(ids, n, out_pitches) ==
    IF DecodeFails(n, ids) THEN DecodeError(n, ids)
    ELSE IF UnfoldFails(decode(n, ids), out_pitches) THEN "AssertionError"
    ELSE ""

\* line 179 and line 225: the temperatures, in tenths
TRAIN_TEMPERATURES == <<2, 5, 10, 12>>
RUN_TEMPERATURES == <<7, 9, 11>>

\* line 35
LOAD_WEIGHTS == FALSE

(***************************************************************************)
(* The parts of the state a specification does not use.                    *)
(***************************************************************************)
NoArray == Arr(0, <<>>)

CodecIdle ==
    /\ trips = 0
    /\ midi_array = NoArray
    /\ config_ids = <<>>
    /\ res = NoArray

PrepareIdle ==
    /\ corpus = <<>>
    /\ file_idx = 0
    /\ config_seq = <<>>
    /\ X = <<>>
    /\ y = <<>>

LoopIdle ==
    /\ caller = ""
    /\ seed = <<>>
    /\ length = 0
    /\ phrase = <<>>
    /\ generated = <<>>
    /\ j = 0
    /\ i = 0
    /\ t_idx = 0
    /\ start_index = 0

codecVars == <<trips, midi_array, config_ids, res>>
prepareVars == <<corpus, file_idx, config_seq, X, y>>
loopVars ==
    <<caller, seed, length, phrase, generated, j, i, t_idx, start_index>>
configVars == <<PITCHES, OUT_PITCHES>>

\* the program ends with an exception
Raise(e) ==
    /\ pc' = "error"
    /\ err' = e

(***************************************************************************)
(* The codec on its own: encode and decode applied in turn to a list of    *)
(* one Class ID or to an array of one configuration, for 1 to 8 pitches.   *)
(***************************************************************************)
\* a pitch list of n pitches
PitchList(n) == [k \in 1..n |-> 35 + k]

InitCodec ==
    /\ \E n \in 1..MAX_PITCHES :
          /\ PITCHES = PitchList(n)
          /\ \/ \E id \in 0..(Pow2(n) - 1) :
                   /\ pc = "decode"
                   /\ config_ids = <<id>>
                   /\ midi_array = NoArray
                   /\ input = <<id>>
             \/ \E row \in [0..(n - 1) -> {0, 1}] :
                   /\ pc = "encode"
                   /\ midi_array = Arr(n, <<row>>)
                   /\ config_ids = <<>>
                   /\ input = Arr(n, <<row>>)
    /\ OUT_PITCHES = <<>>
    /\ err = ""
    /\ calls = <<>>
    /\ trips = 0
    /\ res = NoArray
    /\ PrepareIdle
    /\ LoopIdle

Encode ==
    /\ pc = "encode"
    /\ trips < MaxTrips
    /\ IF EncodeFails(Len(PITCHES), midi_array)
       THEN Raise("KeyError") /\ UNCHANGED config_ids
       ELSE /\ config_ids' = encode(Len(PITCHES), midi_array)
            /\ pc' = "decode"
            /\ err' = err
    /\ trips' = trips + 1
    /\ UNCHANGED <<configVars, calls, input, midi_array, res, prepareVars,
                   loopVars>>

Decode ==
    /\ pc = "decode"
    /\ trips < MaxTrips
    /\ IF DecodeFails(Len(PITCHES), config_ids)
       THEN Raise(DecodeError(Len(PITCHES), config_ids))
            /\ UNCHANGED midi_array
       ELSE /\ midi_array' = decode(Len(PITCHES), config_ids)
            /\ pc' = "encode"
            /\ err' = err
    /\ trips' = trips + 1
    /\ UNCHANGED <<configVars, calls, input, config_ids, res, prepareVars,
                   loopVars>>

NextCodec == Encode \/ Decode

SpecCodec == InitCodec /\ [][NextCodec]_vars

(***************************************************************************)
(* unfold on its own.                                                      *)
(***************************************************************************)
\* the pitches the lists handed to unfold are drawn from
UnfoldPitchPool == {0, 54, 56, NUM_MIDI_PITCHES - 1}

\* the arrays handed to unfold: the cells decode produces
UnfoldArrays ==
    UNION {{Arr(m, rows) :
               rows \in [1..n -> [0..(m - 1) -> {0, VELOCITY}]]} :
           n \in 0..MaxUnfoldRows, m \in 1..MaxUnfoldCols}

UnfoldPitchLists ==
    UNION {[1..m -> UnfoldPitchPool] : m \in 1..MaxUnfoldCols}

InitUnfold ==
    /\ PITCHES = KIT
    /\ OUT_PITCHES \in UnfoldPitchLists
    /\ midi_array \in UnfoldArrays
    /\ input = midi_array
    /\ pc = "unfold"
    /\ err = ""
    /\ calls = <<>>
    /\ trips = 0
    /\ config_ids = <<>>
    /\ res = NoArray
    /\ PrepareIdle
    /\ LoopIdle

Unfold ==
    /\ pc = "unfold"
    /\ IF UnfoldFails(midi_array, OUT_PITCHES)
       THEN Raise("AssertionError") /\ UNCHANGED res
       ELSE /\ res' = unfold(midi_array, OUT_PITCHES)
            /\ pc' = "returned"
            /\ err' = err
    /\ UNCHANGED <<configVars, calls, input, trips, midi_array, config_ids,
                   prepareVars, loopVars>>

NextUnfold == Unfold

SpecUnfold == InitUnfold /\ [][NextUnfold]_vars

\* C1: the codec's tables are mutually inverse and total for 1 to 8
\* pitches: neither encode nor decode fails; a Class ID decoded (to cells
\* that are 120 or 0) and encoded again is the same Class ID; a boolean
\* configuration encoded and decoded again is, thresholded with >0, the
\* same configuration; and no other Class ID decodes to the array a Class
\* ID decodes to.
C1_CodecInverse ==
    LET n == Len(PITCHES)
        fromIds == (pc = "decode") <=> (trips % 2 = 0)
    IN  /\ pc # "error"
        /\ (fromIds /\ pc = "decode" /\ trips >= 2) => config_ids = input
        /\ (fromIds /\ pc = "encode" /\ trips = 1) =>
              /\ Len(midi_array.rows) = 1
              /\ \A c \in 0..(n - 1) :
                    midi_array.rows[1][c] \in {0, VELOCITY}
              /\ \A id \in 0..(Pow2(n) - 1) :
                    id # input[1] => decode(n, <<id>>) # midi_array
        /\ (~fromIds /\ pc = "decode") => config_ids[1] \in 0..(Pow2(n) - 1)
        /\ (~fromIds /\ pc = "encode" /\ trips >= 2) =>
              /\ Len(midi_array.rows) = 1
              /\ \A c \in 0..(n - 1) :
                    (midi_array.rows[1][c] > 0) <=> (input.rows[1][c] = 1)

C1_Witness ==
    /\ Len(PITCHES) = MAX_PITCHES
    /\ pc = "decode"
    /\ trips = 2
    /\ config_ids = <<173>>

\* C7: when the array has as many columns as the pitch list has pitches and
\* the pitches are distinct, unfold returns an array of as many rows and
\* 128 columns, in which column pitches[i] is column i of the array and
\* every other column is 0; the array handed in is unchanged.
C7_Unfold ==
    (/\ pc = "returned"
     /\ \A a, b \in 1..Len(OUT_PITCHES) :
           a # b => OUT_PITCHES[a] # OUT_PITCHES[b]) =>
        /\ midi_array = input
        /\ res.ncols = NUM_MIDI_PITCHES
        /\ Len(res.rows) = Len(midi_array.rows)
        /\ \A r \in 1..Len(res.rows) :
              /\ DOMAIN res.rows[r] = 0..(NUM_MIDI_PITCHES - 1)
              /\ \A k \in 1..Len(OUT_PITCHES) :
                    res.rows[r][OUT_PITCHES[k]] = midi_array.rows[r][k - 1]
              /\ \A p \in (0..(NUM_MIDI_PITCHES - 1)) \ Range(OUT_PITCHES) :
                    res.rows[r][p] = 0

C7_Witness ==
    /\ pc = "returned"
    /\ OUT_PITCHES = <<NUM_MIDI_PITCHES - 1, 0>>
    /\ Len(midi_array.rows) = 1
    /\ midi_array.rows[1] = Row(<<VELOCITY, 0>>)
    /\ res.rows[1][NUM_MIDI_PITCHES - 1] = VELOCITY

(***************************************************************************)
(* prepare_data on its own, for every corpus of at most MaxFiles files of  *)
(* at most MaxFileRows rows.                                               *)
(***************************************************************************)
\* the row of a file in which exactly the pitches of S sound
FileRow(S) == [c \in FILE_COLUMNS |-> IF c \in S THEN 100 ELSE 0]

\* the rows the files are made of: a hit outside the kit only, one hit in
\* the kit, two hits in the kit
FileRows == {FileRow({OFF_KIT}), FileRow({KIT[2]}), FileRow({KIT[1], KIT[2]})}

Files ==
    {[npy |-> TRUE, array |-> rows] :
        rows \in UNION {[1..n -> FileRows] : n \in 0..MaxFileRows}}
    \cup {[npy |-> FALSE, array |-> <<>>]}

Corpora == UNION {[1..n -> Files] : n \in 0..MaxFiles}

InitPrepare ==
    /\ PITCHES = KIT
    /\ OUT_PITCHES = OUT_KIT
    /\ pc = "walk"
    /\ err = ""
    /\ calls = <<>>
    /\ input = <<>>
    /\ CodecIdle
    /\ corpus \in Corpora
    /\ file_idx = 0
    /\ config_seq = <<>>
    /\ X = <<>>
    /\ y = <<>>
    /\ LoopIdle

\* lines 95-96: a file that is no .npy file is passed over
SkipFile ==
    /\ pc = "walk"
    /\ file_idx < Len(corpus)
    /\ ~corpus[file_idx + 1].npy
    /\ file_idx' = file_idx + 1
    /\ UNCHANGED <<configVars, pc, err, calls, input, codecVars, corpus,
                   config_seq, X, y, loopVars>>

\* lines 97-101: a .npy file is loaded, and encoded unless it is discarded
LoadFile ==
    /\ pc = "walk"
    /\ file_idx < Len(corpus)
    /\ corpus[file_idx + 1].npy
    /\ file_idx' = file_idx + 1
    /\ calls' = Append(calls, Call("np.load", file_idx, 0))
    /\ LET array == corpus[file_idx + 1].array
       IN  IF Discards(array, PITCHES)
           THEN config_seq' = config_seq
           ELSE config_seq' =
                    config_seq
                        \o encode(Len(PITCHES), SelectColumns(array, PITCHES))
    /\ UNCHANGED <<configVars, pc, err, input, codecVars, corpus, X, y,
                   loopVars>>

\* lines 102-115: np.zeros refuses a negative number of examples
BuildExamples ==
    /\ pc = "walk"
    /\ file_idx = Len(corpus)
    /\ IF Len(config_seq) - PHRASE_LEN < 0
       THEN Raise("ValueError") /\ UNCHANGED <<X, y>>
       ELSE /\ X' = Examples(config_seq, Len(PITCHES)).X
            /\ y' = Examples(config_seq, Len(PITCHES)).y
            /\ pc' = "prepared"
            /\ err' = err
    /\ UNCHANGED <<configVars, calls, input, codecVars, corpus, file_idx,
                   config_seq, loopVars>>

NextPrepare == SkipFile \/ LoadFile \/ BuildExamples

SpecPrepare == InitPrepare /\ [][NextPrepare]_vars

(***************************************************************************)
(* generate: lines 118-142.                                                *)
(***************************************************************************)
\* lines 121-126
GenerateEnter ==
    /\ pc = "generate"
    /\ IF DecodeFails(Len(PITCHES), seed)
       THEN Raise(DecodeError(Len(PITCHES), seed))
            /\ UNCHANGED <<phrase, generated, j>>
       ELSE /\ generated' = <<>>
            /\ phrase' = seed
            /\ j' = 0
            /\ pc' = "generate_loop"
            /\ err' = err
    /\ UNCHANGED <<configVars, calls, input, codecVars, prepareVars, caller,
                   seed, length, i, t_idx, start_index>>

\* lines 129-137: one pass of the loop
GenerateStep ==
    /\ pc = "generate_loop"
    /\ j < length
    /\ IF OneHotFails(phrase, Len(PITCHES))
       THEN Raise("IndexError") /\ UNCHANGED <<calls, phrase, generated, j>>
       ELSE \E preds \in Predictions(Len(PITCHES)) :
               \E next_id \in sample(preds) :
                  /\ calls' = Append(calls, Call("predict", t_idx, i))
                  /\ generated' = generated \o <<next_id>>
                  /\ phrase' = Slide(phrase, next_id)
                  /\ j' = j + 1
                  /\ UNCHANGED <<pc, err>>
    /\ UNCHANGED <<configVars, input, codecVars, prepareVars, caller, seed,
                   length, i, t_idx, start_index>>

\* lines 140-142: the array unfold returns goes to the renderer and is not
\* kept
GenerateRender ==
    /\ pc = "generate_loop"
    /\ j = length
    /\ LET e == RenderError(generated, Len(PITCHES), OUT_PITCHES)
       IN  IF e # ""
           THEN Raise(e) /\ UNCHANGED calls
           ELSE /\ calls' = Append(calls, Call("mid.save", t_idx, i))
                /\ pc' = IF caller = "run" THEN "run_next" ELSE "returned"
                /\ err' = err
    /\ UNCHANGED <<configVars, input, codecVars, prepareVars, loopVars>>

InitGenerate ==
    /\ PITCHES = KIT
    /\ OUT_PITCHES = OUT_KIT
    /\ pc = "generate"
    /\ err = ""
    /\ calls = <<>>
    /\ CodecIdle
    /\ PrepareIdle
    /\ caller = "generate"
    /\ seed \in [1..PHRASE_LEN -> 0..(Pow2(Len(KIT)) - 1)]
    /\ input = seed
    /\ length \in 0..RUN_GEN_LENGTH
    /\ phrase = <<>>
    /\ generated = <<>>
    /\ j = 0
    /\ i = 0
    /\ t_idx = 0
    /\ start_index = 0

(***************************************************************************)
(* train: lines 161-206.                                                   *)
(***************************************************************************)
\* np.random.randint(low, high) raises ValueError
RandintFails(low, high) == low >= high

\* what np.random.randint(low, high) can return
Randint(low, high) == low..(high - 1)

\* lines 164-174
TrainInit ==
    /\ pc = "train"
    /\ calls' = IF LOAD_WEIGHTS
                THEN Append(calls, Call("load_weights", 0, 0))
                ELSE calls
    /\ i' = 0
    /\ pc' = "train_fit"
    /\ UNCHANGED <<configVars, err, input, codecVars, prepareVars, caller,
                   seed, length, phrase, generated, j, t_idx, start_index>>

\* lines 176-177
TrainFit ==
    /\ pc = "train_fit"
    /\ i < NUM_ITERATIONS
    /\ calls' = Append(calls, Call("fit", i, 0))
    /\ pc' = "train_randint"
    /\ UNCHANGED <<configVars, err, input, codecVars, prepareVars, loopVars>>

\* line 178
TrainSeedIndex ==
    /\ pc = "train_randint"
    /\ LET high == Len(config_seq) - PHRASE_LEN - 1
       IN  IF RandintFails(0, high)
           THEN Raise("ValueError") /\ UNCHANGED <<start_index, t_idx>>
           ELSE /\ start_index' \in Randint(0, high)
                /\ t_idx' = 0
                /\ pc' = "train_temp"
                /\ err' = err
    /\ UNCHANGED <<configVars, calls, input, codecVars, prepareVars, caller,
                   seed, length, phrase, generated, j, i>>

\* lines 179-189
TrainSeed ==
    /\ pc = "train_temp"
    /\ t_idx < Len(TRAIN_TEMPERATURES)
    /\ LET window == Slice(config_seq, start_index, start_index + PHRASE_LEN)
       IN  IF DecodeFails(Len(PITCHES), window)
           THEN Raise(DecodeError(Len(PITCHES), window))
                /\ UNCHANGED <<seed, length, phrase, generated, j>>
           ELSE /\ generated' = <<>>
                /\ phrase' = window
                /\ seed' = window
                /\ length' = TRAIN_GEN_LENGTH
                /\ j' = 0
                /\ pc' = "train_loop"
                /\ err' = err
    /\ UNCHANGED <<configVars, calls, input, codecVars, prepareVars, caller,
                   i, t_idx, start_index>>

\* lines 191-199: one pass of the loop
TrainStep ==
    /\ pc = "train_loop"
    /\ j < length
    /\ IF OneHotFails(phrase, Len(PITCHES))
       THEN Raise("IndexError") /\ UNCHANGED <<calls, phrase, generated, j>>
       ELSE \E preds \in Predictions(Len(PITCHES)) :
               \E next_id \in sample(preds) :
                  /\ calls' = Append(calls,
                         Call("predict", i, TRAIN_TEMPERATURES[t_idx + 1]))
                  /\ generated' = generated \o <<next_id>>
                  /\ phrase' = Slide(phrase, next_id)
                  /\ j' = j + 1
                  /\ UNCHANGED <<pc, err>>
    /\ UNCHANGED <<configVars, input, codecVars, prepareVars, caller, seed,
                   length, i, t_idx, start_index>>

\* lines 202-204
TrainRender ==
    /\ pc = "train_loop"
    /\ j = length
    /\ LET e == RenderError(generated, Len(PITCHES), OUT_PITCHES)
       IN  IF e # ""
           THEN Raise(e) /\ UNCHANGED <<calls, t_idx>>
           ELSE /\ calls' = Append(calls,
                       Call("mid.save", i, TRAIN_TEMPERATURES[t_idx + 1]))
                /\ t_idx' = t_idx + 1
                /\ pc' = "train_temp"
                /\ err' = err
    /\ UNCHANGED <<configVars, input, codecVars, prepareVars, caller, seed,
                   length, phrase, generated, j, i, start_index>>

\* a faulty save: after the first temperature already
EarlySaveWeights ==
    /\ pc = "train_temp"
    /\ t_idx >= 1
    /\ calls' = Append(calls, Call("save_weights", i, 0))
    /\ i' = i + 1
    /\ pc' = "train_fit"
    /\ UNCHANGED <<configVars, err, input, codecVars, prepareVars, caller,
                   seed, length, phrase, generated, j, t_idx, start_index>>

\* line 205, once the temperatures are through
TrainSaveWeights ==
    /\ pc = "train_temp"
    /\ t_idx = Len(TRAIN_TEMPERATURES)
    /\ calls' = Append(calls, Call("save_weights", i, 0))
    /\ i' = i + 1
    /\ pc' = "train_fit"
    /\ UNCHANGED <<configVars, err, input, codecVars, prepareVars, caller,
                   seed, length, phrase, generated, j, t_idx, start_index>>

\* line 206
TrainReturn ==
    /\ pc = "train_fit"
    /\ i = NUM_ITERATIONS
    /\ pc' = "returned"
    /\ UNCHANGED <<configVars, err, calls, input, codecVars, prepareVars,
                   loopVars>>

\* the Event Sequences train is started with: as many entries as
\* prepare_data needs to return, and up to MaxExtra more; entry k is
\* offset + k modulo the number of classes, so that a window tells where it
\* was taken
MaxExtra == 3

TrainSeqs ==
    {[k \in 1..n |-> (offset + k - 1) % Pow2(Len(KIT))] :
        n \in PHRASE_LEN..(PHRASE_LEN + MaxExtra),
        offset \in 0..(Pow2(Len(KIT)) - 1)}

InitTrain ==
    /\ PITCHES = KIT
    /\ OUT_PITCHES = OUT_KIT
    /\ pc = "train"
    /\ err = ""
    /\ calls = <<>>
    /\ CodecIdle
    /\ corpus = <<>>
    /\ file_idx = 0
    /\ config_seq \in TrainSeqs
    /\ X = Examples(config_seq, Len(KIT)).X
    /\ y = Examples(config_seq, Len(KIT)).y
    /\ input = config_seq
    /\ caller = "train"
    /\ seed = <<>>
    /\ length = 0
    /\ phrase = <<>>
    /\ generated = <<>>
    /\ j = 0
    /\ i = 0
    /\ t_idx = 0
    /\ start_index = 0

NextTrain ==
    \/ TrainInit
    \/ TrainFit
    \/ TrainSeedIndex
    \/ TrainSeed
    \/ TrainStep
    \/ TrainRender
    \/ TrainSaveWeights
    \/ TrainReturn

SpecTrain == InitTrain /\ [][NextTrain]_vars

\* generate and train, each started on its own
InitLoops == InitGenerate \/ InitTrain

NextLoops == GenerateEnter \/ GenerateStep \/ GenerateRender \/ NextTrain

SpecLoops == InitLoops /\ [][NextLoops]_vars

(***************************************************************************)
(* The module's top level and run: lines 40-49 and 209-233.                *)
(***************************************************************************)
\* lines 214-222, which have a seed of 32 rows and 4 columns, the kick
\* (column 0) on every 8th row and the hat (column 2) 4 rows after it: here
\* PHRASE_LEN rows and the kit's columns, the kick on every 4th row and the
\* last column 2 rows after it
RunSeed ==
    Arr(Len(KIT),
        [r \in 1..PHRASE_LEN |->
            [c \in 0..(Len(KIT) - 1) |->
                IF \/ (r - 1) % 4 = 0 /\ c = 0
                   \/ (r - 1) % 4 = 2 /\ c = Len(KIT) - 1
                THEN 1 ELSE 0]])

\* line 40, and the tables of lines 41-49
ModuleInit ==
    /\ pc = "module"
    /\ IF Len(PITCHES) > MAX_PITCHES
       THEN Raise("AssertionError")
       ELSE pc' = "walk" /\ err' = err
    /\ UNCHANGED <<configVars, calls, input, codecVars, prepareVars, loopVars>>

\* lines 212-222
RunLoadWeights ==
    /\ pc = "prepared"
    /\ calls' = Append(calls, Call("load_weights", 0, 0))
    /\ t_idx' = 0
    /\ i' = 0
    /\ pc' = "run_loop"
    /\ UNCHANGED <<configVars, err, input, codecVars, prepareVars, caller,
                   seed, length, phrase, generated, j, start_index>>

\* lines 225-231: the call of generate
RunCallGenerate ==
    /\ pc = "run_loop"
    /\ t_idx < Len(RUN_TEMPERATURES)
    /\ IF EncodeFails(Len(PITCHES), RunSeed)
       THEN Raise("KeyError") /\ UNCHANGED <<seed, length>>
       ELSE /\ seed' = encode(Len(PITCHES), RunSeed)
            /\ length' = RUN_GEN_LENGTH
            /\ pc' = "generate"
            /\ err' = err
    /\ UNCHANGED <<configVars, calls, input, codecVars, prepareVars, caller,
                   phrase, generated, j, i, t_idx, start_index>>

\* lines 225-226: the next repeat, or the next temperature
RunAdvance ==
    /\ pc = "run_next"
    /\ IF i + 1 < RUN_REPEATS
       THEN i' = i + 1 /\ t_idx' = t_idx
       ELSE i' = 0 /\ t_idx' = t_idx + 1
    /\ pc' = "run_loop"
    /\ UNCHANGED <<configVars, err, calls, input, codecVars, prepareVars,
                   caller, seed, length, phrase, generated, j, start_index>>

\* the end of run
RunReturn ==
    /\ pc = "run_loop"
    /\ t_idx = Len(RUN_TEMPERATURES)
    /\ pc' = "returned"
    /\ UNCHANGED <<configVars, err, calls, input, codecVars, prepareVars,
                   loopVars>>

\* a file that passes the filter and alone gives PHRASE_LEN entries
LoudFile ==
    [npy |-> TRUE,
     array |-> [r \in 1..PHRASE_LEN |-> FileRow({KIT[1], KIT[2]})]]

RunCorpora ==
    {<<>>,
     <<LoudFile>>,
     <<[npy |-> FALSE, array |-> <<>>], LoudFile,
       [npy |-> TRUE, array |-> <<FileRow({OFF_KIT})>>]>>}

\* the program as it is started: a kit of 2 pitches or one of 9, output
\* pitches that match the kit or do not
Init ==
    /\ PITCHES \in {KIT, PitchList(MAX_PITCHES + 1)}
    /\ OUT_PITCHES \in {OUT_KIT, <<OUT_KIT[1]>>}
    /\ pc = "module"
    /\ err = ""
    /\ calls = <<>>
    /\ input = <<>>
    /\ CodecIdle
    /\ corpus \in RunCorpora
    /\ file_idx = 0
    /\ config_seq = <<>>
    /\ X = <<>>
    /\ y = <<>>
    /\ caller = "run"
    /\ seed = <<>>
    /\ length = 0
    /\ phrase = <<>>
    /\ generated = <<>>
    /\ j = 0
    /\ i = 0
    /\ t_idx = 0
    /\ start_index = 0

Next ==
    \/ ModuleInit
    \/ SkipFile
    \/ LoadFile
    \/ BuildExamples
    \/ RunLoadWeights
    \/ RunCallGenerate
    \/ GenerateEnter
    \/ GenerateStep
    \/ GenerateRender
    \/ RunAdvance
    \/ RunReturn

Spec == Init /\ [][Next]_vars

(***************************************************************************)
(* The properties.                                                         *)
(***************************************************************************)
\* the last n entries of a list
Suffix(list, n) == SubSeq(list, Len(list) - n + 1, Len(list))

\* C2: prepare_data ends without an error for an Event Sequence of any
\* length L, an empty one included, and returns exactly max(L - PHRASE_LEN,
\* 0) Training Examples.
C2_ExamplesOrNone ==
    /\ pc # "error"
    /\ pc = "prepared" =>
          /\ DOMAIN X = 0..(Max(Len(config_seq) - PHRASE_LEN, 0) - 1)
          /\ DOMAIN y = DOMAIN X

\* C3: in the loop of generate and in the loop of train, started from a
\* seed of PHRASE_LEN Class IDs, the window has exactly PHRASE_LEN entries
\* after every pass, namely the last PHRASE_LEN of the seed followed by
\* what was generated; the Generated Sequence has one entry for each pass
\* made; no pass is made beyond `length`; and what follows the loop finds
\* exactly `length` generated entries.
C3_WindowAndLength ==
    /\ pc \in {"generate_loop", "train_loop"} =>
          /\ Len(seed) = PHRASE_LEN
          /\ Len(phrase) = PHRASE_LEN
          /\ phrase = Suffix(seed \o generated, PHRASE_LEN)
          /\ Len(generated) = j
          /\ j <= length
    /\ (\/ caller = "generate" /\ pc = "returned"
        \/ caller = "train" /\ pc = "train_temp" /\ t_idx >= 1) =>
          /\ Len(generated) = length
          /\ j = length
    /\ err # "IndexError"

C3_Witness ==
    /\ caller = "train"
    /\ pc = "train_temp"
    /\ t_idx = Len(TRAIN_TEMPERATURES)
    /\ i = NUM_ITERATIONS - 1
    /\ Len(generated) = TRAIN_GEN_LENGTH
    /\ phrase # seed

\* C4: a .npy file whose count of active cells in the columns of the Pitch
\* Set is below MIN_HITS adds nothing to the Event Sequence; one whose
\* count is MIN_HITS or more adds as many entries as it has rows, after the
\* entries that were there.
C4_MinHitsFilter ==
    [][(/\ pc = "walk"
        /\ file_idx' = file_idx + 1
        /\ corpus[file_idx'].npy) =>
            LET rows == corpus[file_idx'].array
                active ==
                    Cardinality({rp \in (1..Len(rows)) \X Range(PITCHES) :
                                    rows[rp[1]][rp[2]] > 0})
            IN  IF active < MIN_HITS
                THEN config_seq' = config_seq
                ELSE /\ Len(config_seq') = Len(config_seq) + Len(rows)
                     /\ SubSeq(config_seq', 1, Len(config_seq)) = config_seq
      ]_vars

C4_Witness ==
    /\ pc = "walk"
    /\ file_idx = 2
    /\ corpus[1].npy
    /\ corpus[2].npy
    /\ Len(corpus[1].array) = MaxFileRows
    /\ Hits(corpus[2].array, PITCHES) = MIN_HITS
    /\ Len(config_seq) = MaxFileRows + Len(corpus[2].array)

\* C5: every Class ID in the Generated Sequence and in the window is in
\* [0, 2^P), so it is a key of the decode table.
C5_IdsInRange ==
    (caller \in {"generate", "train"}) =>
        /\ \A k \in 1..Len(generated) :
              /\ generated[k] \in 0..(Pow2(Len(PITCHES)) - 1)
              /\ DecodingsHas(Len(PITCHES), generated[k])
        /\ \A k \in 1..Len(phrase) :
              /\ phrase[k] \in 0..(Pow2(Len(PITCHES)) - 1)
              /\ DecodingsHas(Len(PITCHES), phrase[k])

C5_Witness ==
    /\ caller = "generate"
    /\ pc = "returned"
    /\ length = RUN_GEN_LENGTH
    /\ generated[length] = Pow2(Len(PITCHES)) - 1
    /\ generated[1] = 0

\* C6: a failed assertion (more than 8 pitches, or unfold's column count)
\* ends the program before any source file is read, any classifier call is
\* made and any output is written.
C6_AbortBeforeIO ==
    (pc = "error" /\ err = "AssertionError") => calls = <<>>

\* C8: for an Event Sequence longer than PHRASE_LEN, train's choice of the
\* seed does not fail, and the seed is the PHRASE_LEN entries of the Event
\* Sequence from a start index s with 0 <= s and s + PHRASE_LEN <= L.
C8_SeedInsideSequence ==
    (caller = "train" /\ Len(config_seq) > PHRASE_LEN) =>
        /\ pc # "error"
        /\ pc \in {"train_temp", "train_loop"} =>
              /\ 0 <= start_index
              /\ start_index + PHRASE_LEN <= Len(config_seq)
        /\ pc = "train_loop" =>
              seed = SubSeq(config_seq, start_index + 1,
                            start_index + PHRASE_LEN)

\* C9: example i has as context the one-hot encodings of s[i], ...,
\* s[i+PHRASE_LEN-1] in order, and as label the one-hot encoding of
\* s[i+PHRASE_LEN], for every i from 0 to L - PHRASE_LEN - 1.
C9_ExamplesAreWindows ==
    pc = "prepared" =>
        /\ DOMAIN X = 0..(Len(config_seq) - PHRASE_LEN - 1)
        /\ DOMAIN y = DOMAIN X
        /\ \A a \in DOMAIN X :
              /\ DOMAIN X[a] = 0..(PHRASE_LEN - 1)
              /\ \A b \in DOMAIN X[a] :
                    /\ DOMAIN X[a][b] = 0..(Pow2(Len(PITCHES)) - 1)
                    /\ \A c \in DOMAIN X[a][b] :
                          X[a][b][c] =
                              IF c = config_seq[a + b + 1] THEN 1 ELSE 0
              /\ DOMAIN y[a] = 0..(Pow2(Len(PITCHES)) - 1)
              /\ \A c \in DOMAIN y[a] :
                    y[a][c] =
                        IF c = config_seq[a + PHRASE_LEN + 1] THEN 1 ELSE 0

C9_Witness ==
    /\ pc = "prepared"
    /\ Len(config_seq) >= PHRASE_LEN + 2
    /\ config_seq[PHRASE_LEN + 1] # config_seq[PHRASE_LEN]
    /\ config_seq[PHRASE_LEN + 2] # config_seq[PHRASE_LEN + 1]

\* the calls of one generation run of cycle c at temperature t: `left`
\* predictions, then the save of the rendered output
RECURSIVE GenerationCalls(_, _, _)
GenerationCalls(c, t, left) ==
    IF left = 0 THEN <<Call("mid.save", c, t)>>
    ELSE <<Call("predict", c, t)>> \o GenerationCalls(c, t, left - 1)

\* the generation runs of cycle c for the temperatures from the k-th on
RECURSIVE TemperatureCalls(_, _)
TemperatureCalls(c, k) ==
    IF k > Len(TRAIN_TEMPERATURES) THEN <<>>
    ELSE GenerationCalls(c, TRAIN_TEMPERATURES[k], TRAIN_GEN_LENGTH)
             \o TemperatureCalls(c, k + 1)

\* the calls of the cycles from c on
RECURSIVE CycleCalls(_)
CycleCalls(c) ==
    IF c >= NUM_ITERATIONS THEN <<>>
    ELSE <<Call("fit", c, 0)>> \o TemperatureCalls(c, 1)
             \o <<Call("save_weights", c, 0)>> \o CycleCalls(c + 1)

\* C10: the calls train makes are, for each of NUM_ITERATIONS cycles in
\* turn: one fit; then for each temperature of the list, in order, the
\* predictions of one generation run followed by the save of its output;
\* then one save of the weights.  At every moment the calls made are a
\* beginning of that list, and train returns with all of it made.
C10_CycleOrder ==
    LET expected == CycleCalls(0)
    IN  /\ Len(calls) <= Len(expected)
        /\ calls = SubSeq(expected, 1, Len(calls))
        /\ pc = "returned" => (calls = expected /\ i = NUM_ITERATIONS)

C10_Witness ==
    /\ pc = "returned"
    /\ Len(calls) =
           NUM_ITERATIONS
               * (2 + Len(TRAIN_TEMPERATURES) * (TRAIN_GEN_LENGTH + 1))

====
